---- MODULE Spec2Model ----
(***************************************************************************)
(* Model of src/app.py: the inspection-report form (Streamlit session),    *)
(* its text helpers, the photo "cover" fit and the PDF story that          *)
(* build_pdf assembles.                                                    *)
(***************************************************************************)
EXTENDS Integers, Sequences, FiniteSets, TLC

(***************************************************************************)
(* Bounds of the model.                                                    *)
(***************************************************************************)
\* largest number of files the photo uploader is given
MaxFotos == 4
\* largest width and height (pixels) of a decoded source image
MaxDim == 24
\* largest number of character runs of an input text
MaxRuns == 3
\* largest number of findings selected
MaxHallazgos == 2

(***************************************************************************)
(* Program constants.                                                      *)
(***************************************************************************)
PHOTO_W_2COL_MM == 86
PHOTO_H_2COL_MM == 72
PHOTO_W_FULL_MM == 172
PHOTO_H_FULL_MM == 95
SIGN_W_MM == 90
SIGN_H_MM == 60
\* box_px_w of _img_to_jpeg_cover and _img_to_jpeg_signature_big
BOX_PX_W == 1800
\* the character budgets of build_pdf
OBS_MEDIA_CHARS == 520
CON_MEDIA_CHARS == 320
NO_MEDIA_CHARS == 2000
\* number of photos build_pdf and the handler keep
FOTOS_KEEP == 3
\* a Python float's significand: 1 + 4 * LIMB_BITS = 53 bits
LIMB_BITS == 13

(***************************************************************************)
(* Let(v, F) is F(v) with v evaluated once.                                *)
(***************************************************************************)
Let(v, F(_)) == CHOOSE r \in {F(x) : x \in {v}} : TRUE

\* max(a, b), min(a, b) of two ints
Max(a, b) == IF a >= b THEN a ELSE b
Min(a, b) == IF a <= b THEN a ELSE b

(***************************************************************************)
(* Python float arithmetic, as far as _img_to_jpeg_cover uses it.  A       *)
(* positive float (IEEE 754 binary64) is [m, e]: m = <<d0, d1, d2, d3, d4>>*)
(* holds its 53 significand bits, d0 = 1 the leading bit and d1..d4 the    *)
(* next 4 x 13 bits, of value                                              *)
(*   (d0*2^52 + d1*2^39 + d2*2^26 + d3*2^13 + d4) * 2^(e-52),              *)
(* so 2^e <= value < 2^(e+1).  Division and multiplication round to        *)
(* nearest, ties to even.                                                  *)
(***************************************************************************)
RECURSIVE Pow2(_)
Pow2(k) == IF k <= 0 THEN 1 ELSE 2 * Pow2(k - 1)

LIMB == Pow2(LIMB_BITS)

\* the exponent e with 2^e <= a/b < 2^(e+1), by search
RECURSIVE FloorLog2Up(_, _, _)
FloorLog2Up(a, b, e) == IF b * Pow2(e + 1) <= a THEN FloorLog2Up(a, b, e + 1) ELSE e

RECURSIVE FloorLog2Down(_, _, _)
FloorLog2Down(a, b, k) == IF a * Pow2(k) >= b THEN k ELSE FloorLog2Down(a, b, k + 1)

FloorLog2(a, b) == IF a >= b THEN FloorLog2Up(a, b, 0) ELSE 0 - FloorLog2Down(a, b, 1)

\* m + 1 in the last place; d0 = 2 when the carry runs through every digit
IncMant(m) ==
    IF m[5] + 1 < LIMB THEN <<m[1], m[2], m[3], m[4], m[5] + 1>>
    ELSE IF m[4] + 1 < LIMB THEN <<m[1], m[2], m[3], m[4] + 1, 0>>
    ELSE IF m[3] + 1 < LIMB THEN <<m[1], m[2], m[3] + 1, 0, 0>>
    ELSE IF m[2] + 1 < LIMB THEN <<m[1], m[2] + 1, 0, 0, 0>>
    ELSE <<m[1] + 1, 0, 0, 0, 0>>

\* round to nearest, ties to even: half is -1, 0 or 1 as the dropped part is
\* below, at or above one half of the last kept bit
RoundMant(m, e, half) ==
    IF half = 1 \/ (half = 0 /\ m[5] % 2 = 1)
    THEN IF IncMant(m)[1] = 2 THEN [m |-> <<1, 0, 0, 0, 0>>, e |-> e + 1]
         ELSE [m |-> IncMant(m), e |-> e]
    ELSE [m |-> m, e |-> e]

\* -1, 0 or 1 as x is below, at or above y
Compare(x, y) == IF x > y THEN 1 ELSE IF x = y THEN 0 ELSE -1

\* k digits of the quotient r/d (r < d), then the remainder
RECURSIVE DivDigits(_, _, _)
DivDigits(r, d, k) ==
    IF k = 0 THEN <<r>>
    ELSE <<(r * LIMB) \div d>> \o DivDigits((r * LIMB) % d, d, k - 1)

\* n / d for d <= n < 2d, times 2^e
DivNorm(n, d, e) ==
    Let(DivDigits(n - d, d, 4),
        LAMBDA q : RoundMant(<<1, q[1], q[2], q[3], q[4]>>, e, Compare(2 * q[5], d)))

\* a / b of two positive ints (Python true division), by long division
FloatDiv(a, b) ==
    Let(FloorLog2(a, b),
        LAMBDA e : IF e >= 0 THEN DivNorm(a, b * Pow2(e), e)
                   ELSE DivNorm(a * Pow2(0 - e), b, e))

\* the digits of w * m, least significant first, after a carry c
RECURSIVE MulDigits(_, _, _)
MulDigits(w, m, c) ==
    IF Len(m) = 1 THEN <<w * m[1] + c>>
    ELSE Let(w * m[Len(m)] + c,
             LAMBDA v : MulDigits(w, SubSeq(m, 1, Len(m) - 1), v \div LIMB) \o <<v % LIMB>>)

\* p = <<top, p1, p2, p3, p4>> is a product of 53 + k bits: drop the last k
ShiftRound(p, k, e) ==
    Let(<<Pow2(k), Pow2(LIMB_BITS - k)>>,
        LAMBDA s : RoundMant(<<p[1] \div s[1],
                               (p[1] % s[1]) * s[2] + p[2] \div s[1],
                               (p[2] % s[1]) * s[2] + p[3] \div s[1],
                               (p[3] % s[1]) * s[2] + p[4] \div s[1],
                               (p[4] % s[1]) * s[2] + p[5] \div s[1]>>,
                             e + k,
                             IF k = 0 THEN -1 ELSE Compare(2 * (p[5] % s[1]), s[1])))

\* w * f of a positive int and a float (the int converts exactly)
FloatMulInt(w, f) ==
    Let(<<MulDigits(w, f.m, 0), f.e>>,
        LAMBDA p : ShiftRound(p[1], FloorLog2(p[1][1], 1), p[2]))

\* x < y for significands
MantLess(x, y) ==
    \E i \in 1..5 : x[i] < y[i] /\ \A j \in 1..(i - 1) : x[j] = y[j]

FloatLess(f, g) == f.e < g.e \/ (f.e = g.e /\ MantLess(f.m, g.m))

\* max(f, g)
FloatMax(f, g) == Let(<<f, g>>, LAMBDA p : IF FloatLess(p[1], p[2]) THEN p[2] ELSE p[1])

\* the part of digit i (0..4) of the significand at or above the units
DigitInt(d, i, e) ==
    IF e - LIMB_BITS * i >= 0 THEN d * Pow2(e - LIMB_BITS * i)
    ELSE IF e - LIMB_BITS * i <= 0 - LIMB_BITS THEN 0
    ELSE d \div Pow2(LIMB_BITS * i - e)

\* int(f): truncation toward zero, for f < 2^31
FloatToInt(f) ==
    Let(f, LAMBDA x :
        IF x.e < 0 THEN 0
        ELSE DigitInt(x.m[1], 0, x.e) + DigitInt(x.m[2], 1, x.e) + DigitInt(x.m[3], 2, x.e)
             + DigitInt(x.m[4], 3, x.e) + DigitInt(x.m[5], 4, x.e))

(***************************************************************************)
(* Calls that may raise: a result is Returned(v) or Raised(exception).     *)
(***************************************************************************)
Returned(v) == [status |-> "returned", exc |-> "", value |-> <<v>>]
Raised(e) == [status |-> "raised", exc |-> e, value |-> <<>>]

\* the first result of rs, in evaluation order, that raised; <<>> if none did
RECURSIVE FirstRaised(_)
FirstRaised(rs) ==
    IF rs = <<>> THEN <<>>
    ELSE IF rs[1].status = "raised" THEN <<rs[1]>> ELSE FirstRaised(Tail(rs))

(***************************************************************************)
(* Image helpers.  The bytes of an uploaded file are modelled by what      *)
(* Image.open and exif_transpose find in them: [valid, width, height,      *)
(* rotated], rotated when the EXIF orientation swaps width and height.     *)
(***************************************************************************)
FileBytes(valid, width, height, rotated) ==
    [valid |-> valid, width |-> width, height |-> height, rotated |-> rotated]

\* ImageOps.exif_transpose(Image.open(...)): the size of the decoded image
DecodedSize(b) ==
    IF b.rotated THEN [width |-> b.height, height |-> b.width]
    ELSE [width |-> b.width, height |-> b.height]

\* box_px_h = max(1, int(box_px_w * (box_h_mm / box_w_mm)))
BoxPxH(box_w_mm, box_h_mm) ==
    Max(1, FloatToInt(FloatMulInt(BOX_PX_W, FloatDiv(box_h_mm, box_w_mm))))

\* Python's x // 2
FloorDiv2(x) == IF x >= 0 THEN x \div 2 ELSE 0 - ((1 - x) \div 2)

\* img2.crop((left, top, left + box_px_w, top + box_px_h)) of the resized
\* image: Image.crop returns an image of the size of its window, and fills in
\* (black) what the window shows outside the image
CropGeometry(box_px_w, box_px_h, new_w, new_h, left, top) ==
    [box_px_w |-> box_px_w, box_px_h |-> box_px_h,
     new_w |-> new_w, new_h |-> new_h, left |-> left, top |-> top,
     width |-> (left + box_px_w) - left, height |-> (top + box_px_h) - top,
     padded |-> left < 0 \/ top < 0 \/ left + box_px_w > new_w \/ top + box_px_h > new_h]

\* new_w = int(img.width * scale), new_h = int(img.height * scale), and the
\* centred crop window
ResizeCrop(w, h, box_px_w, box_px_h, scale) ==
    Let(<<FloatToInt(FloatMulInt(w, scale)), FloatToInt(FloatMulInt(h, scale))>>,
        LAMBDA new : CropGeometry(box_px_w, box_px_h, new[1], new[2],
                                  FloorDiv2(new[1] - box_px_w),
                                  FloorDiv2(new[2] - box_px_h)))

\* the resize and crop of _img_to_jpeg_cover for a decoded image of w x h pixels
CoverGeometry(w, h, box_w_mm, box_h_mm) ==
    Let(BoxPxH(box_w_mm, box_h_mm), LAMBDA box_px_h :
        Let(FloatMax(FloatDiv(BOX_PX_W, w), FloatDiv(box_px_h, h)), LAMBDA scale :
            ResizeCrop(w, h, BOX_PX_W, box_px_h, scale)))

CoverJpeg(file_bytes, g) ==
    [helper |-> "cover", format |-> "JPEG", src |-> file_bytes,
     width |-> g.width, height |-> g.height, geometry |-> <<g>>]

_img_to_jpeg_cover(file_bytes, box_w_mm, box_h_mm) ==
    IF ~file_bytes.valid THEN Raised("UnidentifiedImageError")
    ELSE Let(<<file_bytes, DecodedSize(file_bytes)>>, LAMBDA img :
             Let(CoverGeometry(img[2].width, img[2].height, box_w_mm, box_h_mm),
                 LAMBDA g : Returned(CoverJpeg(img[1], g))))

\* the signature is trimmed, fitted inside the box and pasted on a white canvas
_img_to_jpeg_signature_big(file_bytes, box_w_mm, box_h_mm) ==
    IF ~file_bytes.valid THEN Raised("UnidentifiedImageError")
    ELSE Returned([helper |-> "signature_big", format |-> "JPEG", src |-> file_bytes,
                   width |-> BOX_PX_W, height |-> BoxPxH(box_w_mm, box_h_mm),
                   geometry |-> <<>>])

(***************************************************************************)
(* Text helpers.  A text is the sequence of its maximal runs of one        *)
(* character, each run [c, n] standing for c repeated n >= 1 times; two    *)
(* texts are equal iff the strings are.  After escaping, c may be an       *)
(* entity or tag of several characters (TokLen).                           *)
(***************************************************************************)
Run(c, n) == [c |-> c, n |-> n]

\* str.strip / str.rstrip remove these
Whitespace == {" ", "\t", "\n", "\r"}

\* len() of one token: a character, an entity or tag of the markup, or one of
\* the program's literals (written here without their accents)
TokLen(c) ==
    CASE c \in {"&amp;", "<br/>"} -> 5
      [] c \in {"&lt;", "&gt;"} -> 4
      [] c \in {": ", ", "} -> 2
      [] c \in {"Otra", "LOTO", "bajo", "alto", "Bajo", "Alto"} -> 4
      [] c \in {"Civil", "Otros", "medio", "Medio"} -> 5
      [] c \in {"Riesgo ", "critico", "Critico"} -> 7
      [] c \in {"Mecanica", "Tableros"} -> 8
      [] c \in {"Electrica", "inmediata", "rutinaria"} -> 9
      [] c = "programada" -> 10
      [] c \in {"Instrumental", ". Prioridad "} -> 12
      [] c = ". Hallazgos: " -> 13
      [] c = "Orden y limpieza" -> 16
      [] c = "Condicion insegura" -> 18
      [] c = ". Accion: corregir desviacion y registrar OT." -> 45
      [] c = ". Accion: mantener condicion segura y registrar verificacion." -> 61
      [] OTHER -> 1

\* len(text)
RECURSIVE TextLen(_)
TextLen(t) == IF t = <<>> THEN 0 ELSE t[1].n * TokLen(t[1].c) + TextLen(Tail(t))

\* the run form of a concatenation: empty runs dropped, equal neighbours merged
RECURSIVE Canon(_)
Canon(t) ==
    IF t = <<>> THEN <<>>
    ELSE IF t[1].n = 0 THEN Canon(Tail(t))
    ELSE LET rest == Canon(Tail(t))
         IN  IF rest # <<>> /\ rest[1].c = t[1].c
             THEN <<Run(t[1].c, t[1].n + rest[1].n)>> \o Tail(rest)
             ELSE <<t[1]>> \o rest

\* text.replace(old, new) for single characters old and a token new
Replace(t, old, new) ==
    Canon([i \in 1..Len(t) |-> IF t[i].c = old THEN Run(new, t[i].n) ELSE t[i]])

\* text.replace("\r\n", "\n"): the last \r of a run takes the \n that follows
ReplaceCRLF(t) ==
    Canon([i \in 1..Len(t) |->
            IF t[i].c = "\r" /\ i < Len(t) /\ t[i + 1].c = "\n"
            THEN Run("\r", t[i].n - 1) ELSE t[i]])

\* re.sub(r"[ \t]+", " ", text)
CollapseBlanks(t) ==
    LET u == Replace(t, "\t", " ")
    IN  [i \in 1..Len(u) |-> IF u[i].c = " " THEN Run(" ", 1) ELSE u[i]]

\* re.sub(r"\n{3,}", "\n\n", text)
CollapseNewlines(t) ==
    [i \in 1..Len(t) |-> IF t[i].c = "\n" /\ t[i].n >= 3 THEN Run("\n", 2) ELSE t[i]]

RECURSIVE LStrip(_)
LStrip(t) == IF t # <<>> /\ t[1].c \in Whitespace THEN LStrip(Tail(t)) ELSE t

RECURSIVE RStrip(_)
RStrip(t) ==
    IF t # <<>> /\ t[Len(t)].c \in Whitespace THEN RStrip(SubSeq(t, 1, Len(t) - 1)) ELSE t

Strip(t) == LStrip(RStrip(t))

\* text[:k] for k >= 0, on single-character runs
RECURSIVE Take(_, _)
Take(t, k) ==
    IF t = <<>> \/ k <= 0 THEN <<>>
    ELSE IF t[1].n >= k THEN <<Run(t[1].c, k)>>
    ELSE <<t[1]>> \o Take(Tail(t), k - t[1].n)

normalize_spaces(text) ==
    Strip(CollapseNewlines(CollapseBlanks(Replace(ReplaceCRLF(text), "\r", "\n"))))

Ellipsis == <<Run(".", 3)>>

\* the one-character placeholder U+2014 of empty fields (strings here are ASCII)
EmDash == "[U+2014]"

\* trim_for_pdf cutting at max_chars instead of max_chars - 3
trim_for_pdf_late_cut(text, max_chars) ==
    LET t == normalize_spaces(text)
    IN  IF TextLen(t) <= max_chars THEN t
        ELSE Strip(Canon(RStrip(Take(t, max_chars)) \o Ellipsis))

\* trim_for_pdf cutting without appending the "..."
trim_for_pdf_no_marker(text, max_chars) ==
    LET t == normalize_spaces(text)
    IN  IF TextLen(t) <= max_chars THEN t
        ELSE Strip(RStrip(Take(t, max_chars - 3)))

trim_for_pdf(text, max_chars) ==
    LET t == normalize_spaces(text)
    IN  IF TextLen(t) <= max_chars THEN t
        ELSE Strip(Canon(RStrip(Take(t, max_chars - 3)) \o Ellipsis))

\* xml.sax.saxutils.escape
escape(t) == Replace(Replace(Replace(t, "&", "&amp;"), ">", "&gt;"), "<", "&lt;")

text_to_paragraph_html(text) ==
    LET t == escape(Replace(ReplaceCRLF(text), "\r", "\n"))
    IN  IF Strip(t) # <<>> THEN Strip(Replace(t, "\n", "<br/>")) ELSE <<Run(EmDash, 1)>>

(***************************************************************************)
(* Auto conclusion.                                                        *)
(***************************************************************************)
\* a literal of the program as a text of one token
Lit(str) == <<Run(str, 1)>>

\* str.lower() of a risk level
Lower(str) ==
    CASE str = "Bajo" -> "bajo"
      [] str = "Medio" -> "medio"
      [] str = "Alto" -> "alto"
      [] str = "Critico" -> "critico"
      [] OTHER -> str

\* sep.join(items), as a text
RECURSIVE Join(_, _)
Join(sep, items) ==
    IF items = <<>> THEN <<>>
    ELSE IF Len(items) = 1 THEN Lit(items[1])
    ELSE Lit(items[1]) \o Lit(sep) \o Join(sep, Tail(items))

\* the priority label of generate_conclusion_short
Prioridad(nivel_riesgo) ==
    IF nivel_riesgo = "Alto" THEN "inmediata"
    ELSE IF nivel_riesgo = "Medio" THEN "programada"
    ELSE "rutinaria"

generate_conclusion_short(disciplina, nivel_riesgo, hallazgos) ==
    LET riesgo == Lit("Riesgo ") \o Lit(Lower(nivel_riesgo))
        prioridad == Prioridad(nivel_riesgo)
        head == Lit(disciplina) \o Lit(": ") \o riesgo
                \o Lit(". Prioridad ") \o Lit(prioridad)
    IN  IF hallazgos # <<>>
        THEN head \o Lit(". Hallazgos: ")
             \o Join(", ", SubSeq(hallazgos, 1, Min(5, Len(hallazgos))))
             \o Lit(". Accion: corregir desviacion y registrar OT.")
        ELSE head \o Lit(". Accion: mantener condicion segura y registrar verificacion.")

\* compute_auto_hash: f"{d}|{r}|{h}" with h the findings joined by ","
compute_auto_hash(ss) ==
    Lit(ss.disciplina) \o Lit("|") \o Lit(ss.nivel_riesgo) \o Lit("|")
    \o Join(",", ss.hallazgos)

\* sync_auto_conclusion_if_needed without the test of conclusion_locked
sync_ignoring_lock(ss) ==
    IF ~ss.auto_conclusion THEN ss
    ELSE IF compute_auto_hash(ss) # ss.last_auto_hash \/ Strip(ss.conclusion) = <<>>
    THEN [ss EXCEPT !.conclusion =
                        generate_conclusion_short(ss.disciplina, ss.nivel_riesgo, ss.hallazgos),
                    !.last_auto_hash = compute_auto_hash(ss)]
    ELSE ss

\* sync_auto_conclusion_if_needed, on the session ss
sync_auto_conclusion_if_needed(ss) ==
    IF ~ss.auto_conclusion THEN ss
    ELSE IF ss.conclusion_locked THEN ss
    ELSE IF compute_auto_hash(ss) # ss.last_auto_hash \/ Strip(ss.conclusion) = <<>>
    THEN [ss EXCEPT !.conclusion =
                        generate_conclusion_short(ss.disciplina, ss.nivel_riesgo, ss.hallazgos),
                    !.last_auto_hash = compute_auto_hash(ss)]
    ELSE ss

(***************************************************************************)
(* PDF: the story of build_pdf, a sequence of flowables.                   *)
(***************************************************************************)
Paragraph(text, style) == [kind |-> "Paragraph", text |-> text, style |-> style]

Table(data, colWidths, style) ==
    [kind |-> "Table", data |-> data, colWidths |-> colWidths, style |-> style]

\* RLImage(data, width = w * mm, height = h * mm)
RLImage(data, w, h) == [kind |-> "Image", data |-> data, width |-> w, height |-> h]

\* the "" of an empty grid cell
EmptyCell == [kind |-> "str", data |-> "", width |-> 0, height |-> 0]

\* r, or Returned(F(v)) when r returned v
Then(r, F(_)) == Let(r, LAMBDA x : IF x.status = "raised" THEN x ELSE Returned(F(x.value[1])))

\* build_pdf.photo_obj
photo_obj(b, w, h) ==
    Then(_img_to_jpeg_cover(b, w, h), LAMBDA jpeg : RLImage(jpeg, w, h))

\* build_pdf.sign_obj
sign_obj(b) ==
    Then(_img_to_jpeg_signature_big(b, SIGN_W_MM, SIGN_H_MM),
         LAMBDA jpeg : RLImage(jpeg, SIGN_W_MM, SIGN_H_MM))

\* photo_obj(fotos_use[i][1], w, h), i counted from 0 as in the source
PhotoAt(fotos_use, i, w, h) ==
    IF i + 1 > Len(fotos_use) THEN Raised("IndexError")
    ELSE photo_obj(fotos_use[i + 1][2], w, h)

\* sign_obj(sig_use[1]); sig_use is None (<<>>) or a (name, bytes) tuple
SignOf(sig_use) ==
    IF sig_use = <<>> THEN Raised("TypeError") ELSE sign_obj(sig_use[1][2])

\* the TableStyle of an image grid
GridStyle(extra) ==
    <<"LEFTPADDING 0", "TOPPADDING 4", "BOTTOMPADDING 2", "VALIGN MIDDLE">> \o extra

\* objs are the image objects of a layout branch in the order it creates them:
\* the first that raises ends build_pdf, else the branch appends Make(objects)
Layout(objs, Make(_)) ==
    Let(objs, LAMBDA rs :
        IF FirstRaised(rs) # <<>> THEN FirstRaised(rs)[1]
        ELSE Returned(Make([i \in 1..Len(rs) |-> rs[i].value[1]])))

Cols2 == <<PHOTO_W_2COL_MM, PHOTO_W_2COL_MM>>

\* Photo2Col with the full-width box
Photo2Col_full(fotos_use, i) == PhotoAt(fotos_use, i, PHOTO_W_FULL_MM, PHOTO_H_FULL_MM)

Photo2Col(fotos_use, i) == PhotoAt(fotos_use, i, PHOTO_W_2COL_MM, PHOTO_H_2COL_MM)
PhotoFull(fotos_use, i) == PhotoAt(fotos_use, i, PHOTO_W_FULL_MM, PHOTO_H_FULL_MM)

\* the layout branch of build_pdf for n photos, as the flowable it appends
ImageLayout(fotos_use, sig_use) ==
    LET n == Len(fotos_use)
    IN  IF n = 1 /\ sig_use = <<>> THEN
            Layout(<<PhotoFull(fotos_use, 0)>>, LAMBDA v : v[1])
        ELSE IF n = 1 /\ sig_use # <<>> THEN
            Layout(<<PhotoFull(fotos_use, 0), SignOf(sig_use)>>,
                   LAMBDA v : Table(<<<<v[1]>>, <<v[2]>>>>, <<PHOTO_W_FULL_MM>>,
                                    GridStyle(<<"RIGHTPADDING 0", "ALIGN LEFT">>)))
        ELSE IF n = 2 /\ sig_use = <<>> THEN
            Layout(<<Photo2Col(fotos_use, 0), Photo2Col(fotos_use, 1)>>,
                   LAMBDA v : Table(<<<<v[1], v[2]>>>>, Cols2,
                                    GridStyle(<<"RIGHTPADDING 6">>)))
        ELSE IF n = 2 /\ sig_use # <<>> THEN
            Layout(<<Photo2Col(fotos_use, 0), Photo2Col(fotos_use, 1), SignOf(sig_use)>>,
                   LAMBDA v : Table(<<<<v[1], v[2]>>, <<v[3], EmptyCell>>>>, Cols2,
                                    GridStyle(<<"RIGHTPADDING 6", "SPAN (0,1) (1,1)",
                                                "ALIGN (0,1) (1,1) LEFT">>)))
        ELSE IF n = 3 /\ sig_use = <<>> THEN
            Layout(<<Photo2Col(fotos_use, 0), Photo2Col(fotos_use, 1),
                     Photo2Col(fotos_use, 2)>>,
                   LAMBDA v : Table(<<<<v[1], v[2]>>, <<v[3], EmptyCell>>>>, Cols2,
                                    GridStyle(<<"RIGHTPADDING 6">>)))
        ELSE \* the source's comment: n == 3 and sig_use
            Layout(<<Photo2Col(fotos_use, 0), Photo2Col(fotos_use, 1),
                     Photo2Col(fotos_use, 2), SignOf(sig_use)>>,
                   LAMBDA v : Table(<<<<v[1], v[2]>>, <<v[3], v[4]>>>>, Cols2,
                                    GridStyle(<<"RIGHTPADDING 6", "ALIGN LEFT">>)))

\* FotosUse keeping the last three photos instead of the first three
FotosUse_last3(fotos, include_fotos) ==
    IF include_fotos /\ fotos # <<>>
    THEN SubSeq(fotos, Max(1, Len(fotos) - FOTOS_KEEP + 1), Len(fotos))
    ELSE <<>>

\* fotos[:3] if (include_fotos and fotos) else []
FotosUse(fotos, include_fotos) ==
    IF include_fotos /\ fotos # <<>> THEN SubSeq(fotos, 1, Min(FOTOS_KEEP, Len(fotos)))
    ELSE <<>>

\* firma_img if (include_firma and firma_img) else None; None is <<>>, a
\* (name, bytes) tuple t is <<t>>
SigUse(firma_img, include_firma) ==
    IF include_firma /\ firma_img # <<>> THEN firma_img ELSE <<>>

HasMedia(fotos, firma_img, include_firma, include_fotos) ==
    (include_fotos /\ fotos # <<>>) \/ (include_firma /\ firma_img # <<>>)

\* the story up to the conclusion
StoryHead(data, obs_pdf, con_pdf) ==
    << Paragraph(Lit("INFORME TECNICO DE INSPECCION"), "h1"),
       Table(data, <<42, 130>>, <<"GRID">>),
       Paragraph(Lit("Observaciones"), "h2"),
       Paragraph(text_to_paragraph_html(obs_pdf), "body"),
       Paragraph(Lit("Conclusion"), "h2"),
       Paragraph(text_to_paragraph_html(con_pdf), "body") >>

\* doc.build(story); return buffer.getvalue()
DocBuild(story) == Returned([format |-> "PDF", story |-> story])

build_pdf(titulo, fecha, equipo, ubicacion, inspector, cargo, registro_ot, disciplina, nivel_riesgo, hallazgos, observaciones, conclusion, fotos, firma_img, include_firma, include_fotos) ==
    LET data == <<
            <<"Fecha", fecha>>, <<"Titulo", titulo>>, <<"Disciplina", disciplina>>,
            <<"Riesgo", nivel_riesgo>>, <<"Equipo / Area", equipo>>,
            <<"Ubicacion", ubicacion>>, <<"Inspector", inspector>>, <<"Cargo", cargo>>,
            <<"OT / Registro", registro_ot>>,
            <<"Hallazgos", IF hallazgos # <<>> THEN Join(", ", hallazgos) ELSE Lit(EmDash)>> >>
        has_media == HasMedia(fotos, firma_img, include_firma, include_fotos)
        obs_pdf == trim_for_pdf(observaciones,
                                IF has_media THEN OBS_MEDIA_CHARS ELSE NO_MEDIA_CHARS)
        con_pdf == trim_for_pdf(conclusion,
                                IF has_media THEN CON_MEDIA_CHARS ELSE NO_MEDIA_CHARS)
        fotos_use == FotosUse(fotos, include_fotos)
        sig_use == SigUse(firma_img, include_firma)
    IN  Let(StoryHead(data, obs_pdf, con_pdf), LAMBDA story :
            IF fotos_use # <<>> \/ sig_use # <<>>
            THEN Let(ImageLayout(fotos_use, sig_use), LAMBDA grid :
                     IF grid.status = "raised" THEN grid
                     ELSE DocBuild(story \o <<Paragraph(Lit("Imagenes"), "h2"),
                                              grid.value[1]>>))
            ELSE DocBuild(story))

(***************************************************************************)
(* State.                                                                  *)
(***************************************************************************)
VARIABLES
    session_state,  \* st.session_state: the form's fields and the uploader nonce
    fotos_files,    \* the files held by the photo uploader
    firma_file,     \* the file held by the signature uploader: <<>> or <<file>>
    shown,          \* what the last run of the script rendered after the form
    call,           \* the arguments of the function applied last
    ret             \* its result: <<>> before the call, then <<result>>

vars == <<session_state, fotos_files, firma_file, shown, call, ret>>

ui_vars == <<session_state, fotos_files, firma_file, shown>>

get_defaults ==
    [theme |-> "Oscuro", include_signature |-> TRUE, include_photos |-> TRUE,
     show_correccion |-> TRUE, auto_conclusion |-> TRUE,
     fecha |-> "dd-mm-yyyy", titulo |-> "Informe Tecnico de Inspeccion",
     disciplina |-> "Electrica", equipo |-> "", ubicacion |-> "",
     inspector |-> "JORGE CAMPOS AGUIRRE", cargo |-> "Especialista electrico",
     registro_ot |-> "", nivel_riesgo |-> "Medio", hallazgos |-> <<>>,
     observaciones_raw |-> <<>>, obs_fixed_preview |-> <<>>, conclusion |-> <<>>,
     conclusion_locked |-> FALSE, last_auto_hash |-> <<>>]

\* the session of a script that was never run: no key is set
NoSession == [k \in {} |-> 0]

\* init_state: every key that is missing gets its default
init_state(ss) ==
    LET d == get_defaults @@ [__uploader_nonce__ |-> 0]
    IN  [k \in DOMAIN d |-> IF k \in DOMAIN ss THEN ss[k] ELSE d[k]]

\* hard_reset_now up to its st.rerun(): every key is deleted, the nonce is set,
\* the defaults are written and the theme read at the start is put back
hard_reset_now(ss) ==
    LET current_theme == IF "theme" \in DOMAIN ss THEN ss.theme ELSE "Oscuro"
        d == [get_defaults EXCEPT !.theme = current_theme]
    IN  d @@ [__uploader_nonce__ |-> 1]

(***************************************************************************)
(* Inputs.                                                                 *)
(***************************************************************************)
\* files as the uploaders hand them over: two that decode, one that does not
GoodBytes == FileBytes(TRUE, 4, 3, FALSE)
OtherBytes == FileBytes(TRUE, 3, 5, TRUE)
BadBytes == FileBytes(FALSE, 0, 0, FALSE)
SomeBytes == {GoodBytes, OtherBytes, BadBytes}

\* (name, bytes)
NamedFile(b) == <<"upload", b>>

SeqsUpTo(S, n) == UNION {[1..k -> S] : k \in 0..n}

FotoLists == SeqsUpTo({NamedFile(b) : b \in SomeBytes}, MaxFotos)
FirmaOptions == {<<>>} \cup {<<NamedFile(b)>> : b \in {GoodBytes, BadBytes}}

RiskLevels == {"Bajo", "Medio", "Alto"}

\* a short text, as typed
ShortText == <<Run("a", 2), Run(" ", 2), Run("&", 1)>>
FewTexts == {<<>>, ShortText}

\* texts as typed, around the three character budgets
TypedRuns ==
    [c : {"a"}, n : {2, OBS_MEDIA_CHARS - 2, CON_MEDIA_CHARS - 4, NO_MEDIA_CHARS - 2}]
    \cup {Run("&", 1), Run(" ", 2), Run("\n", 3), Run("\t", 1), Run("\r", 1)}

TypedTexts ==
    {t \in SeqsUpTo(TypedRuns, MaxRuns) : \A i \in 1..(Len(t) - 1) : t[i].c # t[i + 1].c}

BuildArgs(fotos, firma_img, include_firma, include_fotos, observaciones, conclusion, nivel_riesgo) ==
    [titulo |-> get_defaults.titulo, fecha |-> get_defaults.fecha,
     equipo |-> get_defaults.equipo, ubicacion |-> get_defaults.ubicacion,
     inspector |-> get_defaults.inspector, cargo |-> get_defaults.cargo,
     registro_ot |-> get_defaults.registro_ot, disciplina |-> get_defaults.disciplina,
     nivel_riesgo |-> nivel_riesgo, hallazgos |-> get_defaults.hallazgos,
     observaciones |-> observaciones, conclusion |-> conclusion,
     fotos |-> fotos, firma_img |-> firma_img,
     include_firma |-> include_firma, include_fotos |-> include_fotos]

\* build_pdf applied to a record of its arguments
BuildPdfOf(a) ==
    build_pdf(a.titulo, a.fecha, a.equipo, a.ubicacion, a.inspector, a.cargo,
              a.registro_ot, a.disciplina, a.nivel_riesgo, a.hallazgos, a.observaciones,
              a.conclusion, a.fotos, a.firma_img, a.include_firma, a.include_fotos)

UiIdle ==
    /\ session_state = init_state(NoSession)
    /\ fotos_files = <<>>
    /\ firma_file = <<>>
    /\ shown = <<>>

(***************************************************************************)
(* build_pdf as a function of its arguments.                               *)
(***************************************************************************)
BuildInit ==
    /\ UiIdle
    /\ ret = <<>>
    /\ \E fotos \in FotoLists, firma_img \in FirmaOptions,
          include_firma \in BOOLEAN, include_fotos \in BOOLEAN,
          observaciones \in FewTexts, conclusion \in FewTexts,
          nivel_riesgo \in RiskLevels :
            call = <<"build_pdf", BuildArgs(fotos, firma_img, include_firma, include_fotos,
                                            observaciones, conclusion, nivel_riesgo)>>

CallBuildPdf ==
    /\ call # <<>> /\ call[1] = "build_pdf" /\ ret = <<>>
    /\ ret' = <<BuildPdfOf(call[2])>>
    /\ UNCHANGED <<call, ui_vars>>

BuildSpec == BuildInit /\ [][CallBuildPdf]_vars

\* build_pdf on typed texts around the budgets, one text field at a time
TextInit ==
    /\ UiIdle
    /\ ret = <<>>
    /\ \E fotos \in {<<>>, <<NamedFile(GoodBytes)>>},
          firma_img \in {<<>>, <<NamedFile(GoodBytes)>>},
          include_firma \in BOOLEAN, include_fotos \in BOOLEAN,
          t \in TypedTexts, field \in {"observaciones", "conclusion"} :
            call = <<"build_pdf",
                     BuildArgs(fotos, firma_img, include_firma, include_fotos,
                               IF field = "observaciones" THEN t ELSE <<>>,
                               IF field = "conclusion" THEN t ELSE <<>>,
                               get_defaults.nivel_riesgo)>>

TextSpec == TextInit /\ [][CallBuildPdf]_vars

(***************************************************************************)
(* _img_to_jpeg_cover as a function of its arguments.                      *)
(***************************************************************************)
PhotoBoxes == {<<PHOTO_W_2COL_MM, PHOTO_H_2COL_MM>>, <<PHOTO_W_FULL_MM, PHOTO_H_FULL_MM>>}

CoverInit ==
    /\ UiIdle
    /\ ret = <<>>
    /\ \E w \in 1..MaxDim, h \in 1..MaxDim, rotated \in BOOLEAN, box \in PhotoBoxes :
            call = <<"_img_to_jpeg_cover", FileBytes(TRUE, w, h, rotated), box[1], box[2]>>

CallCover ==
    /\ call # <<>> /\ call[1] = "_img_to_jpeg_cover" /\ ret = <<>>
    /\ ret' = <<_img_to_jpeg_cover(call[2], call[3], call[4])>>
    /\ UNCHANGED <<call, ui_vars>>

CoverSpec == CoverInit /\ [][CallCover]_vars

(***************************************************************************)
(* generate_conclusion_short as a function of its arguments.               *)
(***************************************************************************)
Disciplinas == {"Electrica", "Mecanica", "Instrumental", "Civil", "Otra"}
HallazgoOptions == {"Condicion insegura", "Orden y limpieza", "LOTO", "Tableros", "Otros"}
\* the risk levels of the report record: those of the select box and the critical one
RecordRiskLevels == RiskLevels \cup {"Critico"}

ConclusionInit ==
    /\ UiIdle
    /\ ret = <<>>
    /\ \E d \in Disciplinas, r \in RecordRiskLevels,
          h \in {x \in SeqsUpTo(HallazgoOptions, MaxHallazgos) :
                    \A i, j \in 1..Len(x) : i # j => x[i] # x[j]} :
            call = <<"generate_conclusion_short", d, r, h>>

CallConclusion ==
    /\ call # <<>> /\ call[1] = "generate_conclusion_short" /\ ret = <<>>
    /\ ret' = <<generate_conclusion_short(call[2], call[3], call[4])>>
    /\ UNCHANGED <<call, ui_vars>>

ConclusionSpec == ConclusionInit /\ [][CallConclusion]_vars

(***************************************************************************)
(* The form: one action per interaction, each a run of the script.         *)
(***************************************************************************)
\* a run of the script down to the uploaders, no button pressed
RunScript(ss) == sync_auto_conclusion_if_needed(init_state(ss))

\* an uploaded file; the handler reads it into (f.name, f.read())
UploadedFile(b) == [name |-> "upload", data |-> b]
ReadFile(f) == <<f.name, f.data>>

UploadBytes == {GoodBytes, BadBytes}
UploadLists == SeqsUpTo({UploadedFile(b) : b \in UploadBytes}, MaxFotos)

\* a long text, as typed: more than every budget
LongText == <<Run("a", NO_MEDIA_CHARS + 1)>>
FormTexts == FewTexts \cup {LongText}

Init ==
    /\ session_state = RunScript(NoSession)
    /\ fotos_files = <<>>
    /\ firma_file = <<>>
    /\ shown = <<>>
    /\ call = <<>>
    /\ ret = <<>>

\* a run that presses no button renders nothing after the form
NothingShown == shown' = <<>> /\ call' = <<>> /\ ret' = <<>>

\* the "Fotos" checkbox; an uploader that is not rendered loses its files
SetIncludePhotos ==
    /\ session_state' = RunScript([session_state EXCEPT !.include_photos = ~@])
    /\ fotos_files' = IF session_state'.include_photos THEN fotos_files ELSE <<>>
    /\ UNCHANGED firma_file
    /\ NothingShown

\* the "Firma" checkbox
SetIncludeSignature ==
    /\ session_state' = RunScript([session_state EXCEPT !.include_signature = ~@])
    /\ firma_file' = IF session_state'.include_signature THEN firma_file ELSE <<>>
    /\ UNCHANGED fotos_files
    /\ NothingShown

\* the "Nivel de riesgo" select box
SetNivelRiesgo ==
    \E r \in RiskLevels :
        /\ r # session_state.nivel_riesgo
        /\ session_state' = RunScript([session_state EXCEPT !.nivel_riesgo = r])
        /\ UNCHANGED <<fotos_files, firma_file>>
        /\ NothingShown

\* the "Observaciones" text area
SetObservaciones ==
    \E t \in FormTexts :
        /\ t # session_state.observaciones_raw
        /\ session_state' = RunScript([session_state EXCEPT !.observaciones_raw = t])
        /\ UNCHANGED <<fotos_files, firma_file>>
        /\ NothingShown

\* the "Conclusion" text area
SetConclusion ==
    \E t \in FormTexts :
        /\ t # session_state.conclusion
        /\ session_state' = RunScript([session_state EXCEPT !.conclusion = t])
        /\ UNCHANGED <<fotos_files, firma_file>>
        /\ NothingShown

\* the photo uploader (accept_multiple_files), rendered when "Fotos" is on
UploadFotos ==
    \E fs \in UploadLists :
        /\ session_state.include_photos
        /\ fs # fotos_files
        /\ fotos_files' = fs
        /\ session_state' = RunScript(session_state)
        /\ UNCHANGED firma_file
        /\ NothingShown

\* the signature uploader, rendered when "Firma" is on
UploadFirma ==
    \E f \in {<<>>} \cup {<<UploadedFile(b)>> : b \in UploadBytes} :
        /\ session_state.include_signature
        /\ f # firma_file
        /\ firma_file' = f
        /\ session_state' = RunScript(session_state)
        /\ UNCHANGED fotos_files
        /\ NothingShown

\* fotos = [(f.name, f.read()) for f in (fotos_files or [])[:3]]
HandlerFotos(files) ==
    [i \in 1..Min(FOTOS_KEEP, Len(files)) |-> ReadFile(files[i])]

\* firma = (firma_file.name, firma_file.read()) if firma_file else None
HandlerFirma(file) == IF file # <<>> THEN <<ReadFile(file[1])>> ELSE <<>>

\* the arguments the "Generar PDF" handler passes to build_pdf
HandlerArgs(ss, files, file) ==
    [titulo |-> ss.titulo, fecha |-> ss.fecha, equipo |-> ss.equipo,
     ubicacion |-> ss.ubicacion, inspector |-> ss.inspector, cargo |-> ss.cargo,
     registro_ot |-> ss.registro_ot, disciplina |-> ss.disciplina,
     nivel_riesgo |-> ss.nivel_riesgo, hallazgos |-> ss.hallazgos,
     observaciones |-> ss.observaciones_raw, conclusion |-> ss.conclusion,
     fotos |-> HandlerFotos(IF ss.include_photos THEN files ELSE <<>>),
     firma_img |-> HandlerFirma(IF ss.include_signature THEN file ELSE <<>>),
     include_firma |-> ss.include_signature, include_fotos |-> ss.include_photos]

\* what the run renders after build_pdf: the download button, or the
\* exception that ended the run
Rendered(r) ==
    IF r.status = "returned"
    THEN <<[element |-> "download_button", label |-> "Descargar Informe", exc |-> ""]>>
    ELSE <<[element |-> "exception", label |-> "", exc |-> r.exc]>>

\* the "Generar PDF Profesional" button
Generar ==
    /\ shown = <<>>
    /\ session_state' = RunScript(session_state)
    /\ call' = <<"build_pdf", HandlerArgs(session_state', fotos_files, firma_file)>>
    /\ ret' = <<BuildPdfOf(call'[2])>>
    /\ shown' = Rendered(ret'[1])
    /\ UNCHANGED <<fotos_files, firma_file>>

\* the "Tema" radio
SetTheme ==
    /\ session_state' = RunScript([session_state EXCEPT
                                      !.theme = IF @ = "Oscuro" THEN "Claro" ELSE "Oscuro"])
    /\ UNCHANGED <<fotos_files, firma_file>>
    /\ NothingShown

\* an uploader after hard_reset_now: under a new key it is a new, empty widget;
\* under the key it had, its files were deleted from the session but the
\* browser still holds them, and the next run may get them back
AfterReset(files, ss, reset) ==
    IF reset.__uploader_nonce__ # ss.__uploader_nonce__ THEN {<<>>} ELSE {<<>>, files}

\* the "Limpiar formulario" button: hard_reset_now, then the run it asks for
Limpiar ==
    /\ session_state' = RunScript(hard_reset_now(init_state(session_state)))
    /\ fotos_files' \in AfterReset(fotos_files, session_state,
                                   hard_reset_now(init_state(session_state)))
    /\ firma_file' \in AfterReset(firma_file, session_state,
                                  hard_reset_now(init_state(session_state)))
    /\ NothingShown

\* the form as far as generation goes: media, texts, risk level, reset
Next ==
    \/ SetIncludePhotos
    \/ SetIncludeSignature
    \/ SetNivelRiesgo
    \/ SetObservaciones
    \/ SetConclusion
    \/ UploadFotos
    \/ UploadFirma
    \/ Generar
    \/ SetTheme
    \/ Limpiar

Spec == Init /\ [][Next]_vars

(***************************************************************************)
(* The form as far as the conclusion goes.                                 *)
(***************************************************************************)
FormDisciplinas == {"Electrica", "Otra"}
FormHallazgos == {<<>>, <<"LOTO">>, <<"LOTO", "Tableros">>}

\* the "Disciplina" select box
SetDisciplina ==
    \E d \in FormDisciplinas :
        /\ d # session_state.disciplina
        /\ session_state' = RunScript([session_state EXCEPT !.disciplina = d])
        /\ UNCHANGED <<fotos_files, firma_file>>
        /\ NothingShown

\* the "Hallazgos" multiselect
SetHallazgos ==
    \E h \in FormHallazgos :
        /\ h # session_state.hallazgos
        /\ session_state' = RunScript([session_state EXCEPT !.hallazgos = h])
        /\ UNCHANGED <<fotos_files, firma_file>>
        /\ NothingShown

\* the "Auto-conclusion" checkbox
SetAutoConclusion ==
    /\ session_state' = RunScript([session_state EXCEPT !.auto_conclusion = ~@])
    /\ UNCHANGED <<fotos_files, firma_file>>
    /\ NothingShown

\* the "Regenerar conclusion (auto)" button: the run reaches the button after
\* its own sync, and the handler ends in st.rerun()
Regenerar ==
    /\ session_state' =
          RunScript(sync_auto_conclusion_if_needed(
              [RunScript(session_state) EXCEPT !.conclusion_locked = FALSE,
                                               !.last_auto_hash = <<>>]))
    /\ UNCHANGED <<fotos_files, firma_file>>
    /\ NothingShown

\* the "Dejar conclusion manual" button
DejarManual ==
    /\ session_state' =
          RunScript([RunScript(session_state) EXCEPT !.conclusion_locked = TRUE])
    /\ UNCHANGED <<fotos_files, firma_file>>
    /\ NothingShown

SessionNext ==
    \/ SetTheme
    \/ SetDisciplina
    \/ SetNivelRiesgo
    \/ SetHallazgos
    \/ SetAutoConclusion
    \/ SetConclusion
    \/ Regenerar
    \/ DejarManual
    \/ Limpiar

SessionSpec == Init /\ [][SessionNext]_vars

(***************************************************************************)
(* Properties.  What the claims are stated on.                             *)
(***************************************************************************)
\* build_pdf was applied
Built == call # <<>> /\ call[1] = "build_pdf" /\ ret # <<>>
BuildReturned == Built /\ ret[1].status = "returned"
Args == call[2]
Story == ret[1].value[1].story

\* the photos and the signature that build_pdf is to render
PhotosToRender ==
    IF Args.include_fotos
    THEN [i \in 1..(IF Len(Args.fotos) < 3 THEN Len(Args.fotos) ELSE 3) |-> Args.fotos[i]]
    ELSE <<>>
SignatureToRender == IF Args.include_firma THEN Args.firma_img ELSE <<>>
MediaToRender == PhotosToRender \o SignatureToRender
AllDecodable == \A i \in 1..Len(MediaToRender) : MediaToRender[i][2].valid

\* the cells of the image block in page reading order: row by row, left to
\* right within a row
RECURSIVE RowByRow(_)
RowByRow(rows) == IF rows = <<>> THEN <<>> ELSE Head(rows) \o RowByRow(Tail(rows))
ReadingOrder(story) ==
    IF Len(story) <= 7 THEN <<>>
    ELSE IF story[8].kind = "Table" THEN RowByRow(story[8].data)
    ELSE <<story[8]>>
IsPhotoOf(c, f) == c.kind = "Image" /\ c.data.helper = "cover" /\ c.data.src = f[2]
IsSignatureOf(c, f) ==
    c.kind = "Image" /\ c.data.helper = "signature_big" /\ c.data.src = f[2]
IsPhotoCell(c) == c.kind = "Image" /\ c.data.helper = "cover"
PhotoCells(story) == SelectSeq(ReadingOrder(story), IsPhotoCell)
ImageCells(story) == SelectSeq(ReadingOrder(story), LAMBDA c : c.kind = "Image")

\* the number of characters a paragraph's markup prints: an entity or a tag
\* prints as one character
RECURSIVE PrintedLen(_)
PrintedLen(t) == IF t = <<>> THEN 0 ELSE Head(t).n + PrintedLen(Tail(t))
ObsEmitted == Story[4].text
ConEmitted == Story[6].text

\* what is emitted for a text that is not cut
Uncut(text) == text_to_paragraph_html(normalize_spaces(text))

\* C1 (as claimed): build_pdf returns the document, and does not raise, for
\* every combination of 0..3 decodable photos, signature or none, include
\* switches on or off, and empty or non-empty texts; also for zero photos with a
\* signature.
C1_BuildPdfReturns ==
    (Built /\ Len(Args.fotos) <= 3 /\ AllDecodable) => ret[1].status = "returned"

\* C2: with include_fotos on, the story holds exactly min(n, 3) photo blocks,
\* built from the first min(n, 3) photos in their order, and what comes at
\* position 3 or later is never read: dropping it changes nothing.
C2_FirstThreePhotos ==
    (Built /\ Args.include_fotos) =>
        /\ ret[1] = BuildPdfOf([Args EXCEPT !.fotos = PhotosToRender])
        /\ ret[1].status = "returned" =>
              /\ Len(PhotoCells(Story)) = Len(PhotosToRender)
              /\ Len(PhotosToRender) = (IF Len(Args.fotos) < 3 THEN Len(Args.fotos) ELSE 3)
              /\ \A i \in 1..Len(PhotosToRender) :
                    IsPhotoOf(PhotoCells(Story)[i], Args.fotos[i])

\* C2's case: four photos, the fourth undecodable and the first two different
C2_Witness ==
    /\ BuildReturned /\ Args.include_fotos
    /\ Len(Args.fotos) = 4 /\ ~Args.fotos[4][2].valid
    /\ Args.fotos[1] # Args.fotos[2]
    /\ Len(PhotoCells(Story)) = 3

\* C3: when a photo or a signature is rendered, the observations emitted are at
\* most 520 characters and the conclusion at most 320, the "..." included, and
\* a text within its budget is emitted whole, without the marker.
C3_MediaBudgets ==
    (BuildReturned /\ MediaToRender # <<>>) =>
        /\ PrintedLen(ObsEmitted) <= 520
        /\ PrintedLen(ConEmitted) <= 320
        /\ TextLen(normalize_spaces(Args.observaciones)) <= 520
              => ObsEmitted = Uncut(Args.observaciones)
        /\ TextLen(normalize_spaces(Args.conclusion)) <= 320
              => ConEmitted = Uncut(Args.conclusion)

\* C3's case: observations over the budget, cut to exactly 520 characters
C3_Witness ==
    /\ BuildReturned /\ MediaToRender # <<>>
    /\ TextLen(normalize_spaces(Args.observaciones)) > 520
    /\ PrintedLen(ObsEmitted) = 520

\* C4 (as claimed): when no photo and no signature is rendered, observations
\* and conclusion are emitted without truncation, whatever their length.
C4_NeverCut ==
    (BuildReturned /\ MediaToRender = <<>>) =>
        /\ ObsEmitted = Uncut(Args.observaciones)
        /\ ConEmitted = Uncut(Args.conclusion)

\* what is emitted for a text cut to k characters: the first k - 3, without
\* the whitespace they end in, then "..."
CutTo(text, k) ==
    text_to_paragraph_html(
        Canon(RStrip(Take(normalize_spaces(text), k - 3)) \o <<Run(".", 3)>>))

\* C4 (amended): when no photo and no signature is rendered, a text of at most
\* 2000 characters is emitted whole, and a longer one is cut to at most 2000
\* characters, the "..." included.
C4_CutAt2000 ==
    (BuildReturned /\ MediaToRender = <<>>) =>
        /\ ObsEmitted = (IF TextLen(normalize_spaces(Args.observaciones)) <= 2000
                         THEN Uncut(Args.observaciones)
                         ELSE CutTo(Args.observaciones, 2000))
        /\ ConEmitted = (IF TextLen(normalize_spaces(Args.conclusion)) <= 2000
                         THEN Uncut(Args.conclusion)
                         ELSE CutTo(Args.conclusion, 2000))
        /\ PrintedLen(ObsEmitted) <= 2000
        /\ PrintedLen(ConEmitted) <= 2000

\* C4's case: no media and a conclusion of more than 2000 characters
C4_Witness ==
    /\ BuildReturned /\ MediaToRender = <<>>
    /\ TextLen(normalize_spaces(Args.conclusion)) > 2000
    /\ PrintedLen(ConEmitted) = 2000

\* the images among those to render that decode
Decodable == SelectSeq(MediaToRender, LAMBDA f : f[2].valid)

\* C5 (as claimed): when a photo or the signature to render does not decode,
\* build_pdf still returns the document: the image is skipped, something
\* stands in its cell, and the images that decode are all rendered.
C5_BadImageSkipped ==
    (Built /\ ~AllDecodable /\ PhotosToRender # <<>>) =>
        /\ ret[1].status = "returned"
        /\ Len(ImageCells(Story)) = Len(Decodable)
        /\ Len(ReadingOrder(Story)) >= Len(MediaToRender)

\* C6 (as claimed): with more than 3 photos supplied the generation is not
\* rejected, build_pdf is given the first 3 only, and the run shows a warning
\* about the photos ignored.
C6_ExcessPhotosWarned ==
    (Built /\ session_state.include_photos /\ Len(fotos_files) > 3 /\ AllDecodable) =>
        /\ ret[1].status = "returned"
        /\ Args.fotos = [i \in 1..3 |-> <<fotos_files[i].name, fotos_files[i].data>>]
        /\ \E i \in 1..Len(shown) : shown[i].element = "warning"

\* C7 (as claimed): with a signature to render and 0, 1, 2 or 3 photos, the
\* document is built, the signature is rendered, and it comes after every
\* photo in page reading order.
C7_SignatureAfterPhotos ==
    (Built /\ SignatureToRender # <<>> /\ AllDecodable) =>
        /\ ret[1].status = "returned"
        /\ ImageCells(Story) # <<>>
        /\ IsSignatureOf(ImageCells(Story)[Len(ImageCells(Story))], SignatureToRender[1])
        /\ \A i \in 1..(Len(ImageCells(Story)) - 1) : IsPhotoCell(ImageCells(Story)[i])
        /\ Len(PhotoCells(Story)) = Len(PhotosToRender)

\* C8: with 3 photos rendered the grid is 2 x 2: photo 1 and photo 2, then
\* photo 3 and the signature, or nothing when no signature is rendered; one
\* photo has the 172 x 95 box and each of 2 or 3 photos the 86 x 72 box.
C8_GridAndBoxes ==
    BuildReturned =>
        /\ Len(PhotosToRender) = 3 =>
              /\ Story[8].kind = "Table" /\ Len(Story[8].data) = 2
              /\ Len(Story[8].data[1]) = 2 /\ Len(Story[8].data[2]) = 2
              /\ IsPhotoOf(Story[8].data[1][1], PhotosToRender[1])
              /\ IsPhotoOf(Story[8].data[1][2], PhotosToRender[2])
              /\ IsPhotoOf(Story[8].data[2][1], PhotosToRender[3])
              /\ IF SignatureToRender # <<>>
                 THEN IsSignatureOf(Story[8].data[2][2], SignatureToRender[1])
                 ELSE Story[8].data[2][2].kind = "str" /\ Story[8].data[2][2].data = ""
        /\ Len(PhotosToRender) = 1 =>
              \A i \in 1..Len(PhotoCells(Story)) :
                  PhotoCells(Story)[i].width = 172 /\ PhotoCells(Story)[i].height = 95
        /\ Len(PhotosToRender) \in {2, 3} =>
              \A i \in 1..Len(PhotoCells(Story)) :
                  PhotoCells(Story)[i].width = 86 /\ PhotoCells(Story)[i].height = 72
        /\ Len(PhotoCells(Story)) = Len(PhotosToRender)

\* C8's case: three photos, not all alike, and a signature in one grid
C8_Witness ==
    /\ BuildReturned /\ Len(PhotosToRender) = 3 /\ SignatureToRender # <<>>
    /\ PhotosToRender[1] # PhotosToRender[2] /\ PhotosToRender[2] # PhotosToRender[3]
    /\ Len(ImageCells(Story)) = 4

\* _img_to_jpeg_cover was applied
Covered == call # <<>> /\ call[1] = "_img_to_jpeg_cover" /\ ret # <<>>
Geometry == ret[1].value[1].geometry[1]

\* C9 (as claimed): for every image of width and height >= 1 and either photo
\* box, the result is 1800 pixels wide with the box's aspect ratio and comes
\* from cropping only: the resized image is at least as large as the box, and
\* the centred crop window has left >= 0 and top >= 0 and lies inside it.
C9_CropOnly ==
    Covered =>
        /\ ret[1].status = "returned"
        /\ ret[1].value[1].width = 1800
        /\ ret[1].value[1].height = (1800 * call[4]) \div call[3]
        /\ Geometry.new_w >= 1800 /\ Geometry.new_h >= ret[1].value[1].height
        /\ Geometry.left >= 0 /\ Geometry.top >= 0
        /\ Geometry.left + 1800 <= Geometry.new_w
        /\ Geometry.top + ret[1].value[1].height <= Geometry.new_h
        /\ ~Geometry.padded

\* generate_conclusion_short was applied
Concluded == call # <<>> /\ call[1] = "generate_conclusion_short" /\ ret # <<>>
PriorityLabels == {"rutinaria", "programada", "inmediata"}
ClaimedPriority(nivel_riesgo) ==
    CASE nivel_riesgo = "Bajo" -> "rutinaria"
      [] nivel_riesgo = "Medio" -> "programada"
      [] nivel_riesgo \in {"Alto", "Critico"} -> "inmediata"

UploaderKeys(ss) == {<<"f_", ss.__uploader_nonce__>>, <<"s_", ss.__uploader_nonce__>>}

\* C11 (as claimed): every execution of hard_reset_now, after any earlier
\* operations and resets, leaves a nonce different from the one before it, so
\* that both uploaders get keys not in use before; it keeps the theme, and
\* every other field has its default.
C11_ResetRenewsUploaders ==
    [][Limpiar =>
          /\ session_state'.__uploader_nonce__ # session_state.__uploader_nonce__
          /\ UploaderKeys(session_state') \cap UploaderKeys(session_state) = {}
          /\ session_state'.theme = session_state.theme
          /\ \A k \in DOMAIN get_defaults \ {"theme"} :
                hard_reset_now(session_state)[k] = get_defaults[k]]_vars

\* the fields that sync_auto_conclusion_if_needed writes
AutoFields(ss) == <<ss.conclusion, ss.last_auto_hash>>

\* C12: once the conclusion is locked, no run changes conclusion or
\* last_auto_hash, or unlocks it, whatever changes of disciplina, nivel_riesgo,
\* hallazgos or of the auto_conclusion checkbox it carries, unless it is a run
\* of "Regenerar", of "Limpiar" or the user's own edit of the conclusion; and a
\* run with auto_conclusion off changes neither field either.
C12_ManualConclusionKept ==
    [][~(Regenerar \/ Limpiar \/ SetConclusion) =>
          /\ session_state.conclusion_locked =>
                /\ AutoFields(session_state') = AutoFields(session_state)
                /\ session_state'.conclusion_locked
          /\ ~session_state'.auto_conclusion =>
                AutoFields(session_state') = AutoFields(session_state)]_vars

\* C12's case: locked, auto_conclusion on, and the fields changed since: the
\* conclusion is not the generated one and the hash is not the current one
C12_Witness ==
    /\ session_state.conclusion_locked /\ session_state.auto_conclusion
    /\ session_state.last_auto_hash # <<>>
    /\ session_state.last_auto_hash # compute_auto_hash(session_state)
    /\ session_state.conclusion #
          generate_conclusion_short(session_state.disciplina, session_state.nivel_riesgo,
                                    session_state.hallazgos)

\* C13 (as claimed): "Regenerar conclusion (auto)", pressed in any state, leaves
\* the conclusion generated from the current disciplina, nivel_riesgo and
\* hallazgos, conclusion_locked false and last_auto_hash the current hash.
C13_RegenerarRegenerates ==
    [][Regenerar =>
          /\ session_state'.conclusion =
                generate_conclusion_short(session_state'.disciplina,
                                          session_state'.nivel_riesgo,
                                          session_state'.hallazgos)
          /\ ~session_state'.conclusion_locked
          /\ session_state'.last_auto_hash = compute_auto_hash(session_state')]_vars
====
